---- MODULE Spec2Model ----
(***************************************************************************)
(* The metric simulator of api/index.py as a state machine.                *)
(*                                                                         *)
(* Every request is served by a worker thread that runs one of the         *)
(* simulate_* functions (or list_services) step by step: it reads the      *)
(* clock and seeds its own random.Random, consumes the generator's draws   *)
(* one at a time, reads the clock again for the ts of the record, and      *)
(* returns.  The clock advances between any two steps.                     *)
(*                                                                         *)
(* Numbers.  Python's floats are modelled as exact fixed-point rationals.  *)
(* One output of the generator is a raw value in 0..G-1 and                *)
(* random() = raw/G.  A field is kept as an integer count of a unit:       *)
(*   UnitU = 1/(100*G)     a plain uniform(a, b) with two-decimal a, b     *)
(*   UnitM = 1/(1000*G)    a uniform times a one-decimal factor (3.2, 1.0) *)
(*   UnitS = 1/(100*G*G)   a uniform times a uniform(2, 4) or uniform(2, 6)*)
(* Rounding of the binary floating point is not modelled.                  *)
(* Time is counted in whole seconds; a ts is the instant it renders.       *)
(***************************************************************************)
EXTENDS Integers, Sequences, FiniteSets, TLC

VARIABLES clock, th, rng, baseServices, securityEvents, pyhash

vars == <<clock, th, rng, baseServices, securityEvents, pyhash>>

(***************************************************************************)
(* Bounds of the model.                                                    *)
(***************************************************************************)
\* resolution of one generator output: random() is one of 0/G .. (G-1)/G
G == 100
\* the clock value when the first request arrives, in seconds
StartClock == 13
\* the clock advances at most this many seconds while the model runs
MaxElapsed == 2

\* the generator outputs a draw is tried with, when draws are free: all four
\* for a draw that decides a value or a branch, the two extremes for one
\* that only fills a field (a trial of the cloud loop, minutes_ago, the
\* version numbers, the uptime)
Raws == {0, 30, 50, G - 1}

RawsAt(pc) ==
    IF pc \in {"trial", "minutes_ago", "ver_minor", "ver_patch", "uptime"}
    THEN {0, G - 1}
    ELSE Raws

Threads == {"t1", "t2"}

ServiceIds == {"svc-auth", "unknown-id"}

Domains == {"system", "app", "network", "cloud", "security", "services", "service"}

UnitU == 100 * G
UnitM == 1000 * G
UnitS == 100 * G * G

Min(a, b) == IF a < b THEN a ELSE b
Max(a, b) == IF a > b THEN a ELSE b

(***************************************************************************)
(* The two module-level catalogs (target_error_rate is kept in tenths).    *)
(***************************************************************************)
BASE_SERVICES ==
    << [id |-> "svc-auth", name |-> "auth-service", type |-> "app", env |-> "prod",
        owner |-> "identity",
        targets |-> [target_latency_ms |-> 220, target_error_rate |-> 8]],
       [id |-> "svc-orders", name |-> "orders-api", type |-> "app", env |-> "prod",
        owner |-> "commerce",
        targets |-> [target_latency_ms |-> 300, target_error_rate |-> 10]],
       [id |-> "svc-postgres", name |-> "postgres-primary", type |-> "db", env |-> "prod",
        owner |-> "platform",
        targets |-> [target_latency_ms |-> 80, target_error_rate |-> 2]],
       [id |-> "svc-redis", name |-> "redis-cache", type |-> "cache", env |-> "prod",
        owner |-> "platform",
        targets |-> [target_latency_ms |-> 25, target_error_rate |-> 1]],
       [id |-> "svc-gateway", name |-> "edge-gateway", type |-> "gateway", env |-> "prod",
        owner |-> "network",
        targets |-> [target_latency_ms |-> 150, target_error_rate |-> 5]] >>

SECURITY_EVENTS ==
    << [id |-> "evt-1", severity |-> "high", title |-> "Suspicious login burst",
        detail |-> "Multiple failed logins from new ASN"],
       [id |-> "evt-2", severity |-> "medium", title |-> "WAF rule triggered",
        detail |-> "Possible SQLi pattern blocked"],
       [id |-> "evt-3", severity |-> "critical", title |-> "Privilege escalation attempt",
        detail |-> "Admin endpoint access anomaly"],
       [id |-> "evt-4", severity |-> "info", title |-> "Key rotation reminder",
        detail |-> "KMS key rotation due in 7 days"] >>

(***************************************************************************)
(* Helpers.                                                                *)
(***************************************************************************)
\* iso_now(): the instant read from the clock (its ISO-8601 rendering is
\* one-to-one, so the instant stands for the string)
iso_now(now) == now

\* pick_status(score), score in UnitS * 1500 = 1/(150000*G*G):
\* score = latency/1500 + error/25, so 0.85 is 1275/1500 and 0.55 is 825/1500
pick_status(score) ==
    IF score > 1275 * UnitS THEN "down"
    ELSE IF score > 825 * UnitS THEN "warn"
    ELSE "ok"

\* clamp with the bounds dropped
ClampNone(v, lo, hi) == v

clamp(v, lo, hi) == Max(lo, Min(hi, v))

\* hash(service_id): fixed when the process starts (string hashing is salted
\* per process), any integer; these tables are the salts the model tries
HashTables ==
    { [s \in ServiceIds |-> IF s = "svc-auth" THEN -7 ELSE 2147483647],
      [s \in ServiceIds |-> IF s = "svc-auth" THEN 12 ELSE -12] }

abs(x) == IF x < 0 THEN -x ELSE x

stable_seed(service_id) == abs(pyhash[service_id]) % 2147483647

(***************************************************************************)
(* The library generator.  random.Random(seed) is a fixed function of the  *)
(* seed: MT(seed, pos) stands for the pos-th output of the generator       *)
(* seeded with seed.  The draws of the random module are read off one      *)
(* output each.                                                            *)
(***************************************************************************)
MT(seed, pos) ==
    LET s == seed % 9973
    IN (s * 37 + pos * 61 + (s % 7) * pos * 13 + (s % 11) * (s % 11) + 53) % G

\* rng.random() < p, with p = p100/100
random_below(raw, p100) == raw * 100 < p100 * G

\* rng.uniform(a, b) = a + (b - a) * random(), a = a100/100, b = b100/100; UnitU
uniform(a100, b100, raw) == a100 * G + (b100 - a100) * raw

\* rng.uniform(a, b) for whole a, b, used as a factor; in units of 1/G
uniform_factor(a, b, raw) == a * G + (b - a) * raw

\* rng.randint(a, b) = a + randbelow(b - a + 1)
randbelow(n, raw) == (raw * n) \div G

randint(a, b, raw) == a + randbelow(b - a + 1, raw)

(***************************************************************************)
(* A request in flight is a record t: the domain and service id asked for, *)
(* pc (the statement it is at), loc (the local variables of the simulate_* *)
(* function), reads (the clock values it has read so far, in order) and    *)
(* result (what it returned).  Each simulate_* operator below is the       *)
(* function of that name, one statement per value of pc: a statement       *)
(* either consumes one output raw of the request's generator or reads the  *)
(* clock (now).                                                            *)
(***************************************************************************)
NoResult == [none |-> TRUE]

\* lines 121-147.  base_latency and base_error are in UnitU until the spike
\* decision and in UnitS after it (times a factor, or times 1.0)
simulate_service_metrics(t, raw, now) ==
    LET l == t.loc IN
    CASE t.pc = "base_latency" ->
           [t EXCEPT !.pc = "base_error", !.loc.base_latency = uniform(2000, 26000, raw)]
      [] t.pc = "base_error" ->
           [t EXCEPT !.pc = "base_rps", !.loc.base_error = uniform(0, 250, raw)]
      [] t.pc = "base_rps" ->
           [t EXCEPT !.pc = "spike", !.loc.base_rps = uniform(500, 25000, raw)]
      [] t.pc = "spike" ->
           IF random_below(raw, 8)
           THEN [t EXCEPT !.pc = "spike_latency"]
           ELSE [t EXCEPT !.pc = "ret",
                          !.loc.base_latency = l.base_latency * G,
                          !.loc.base_error = l.base_error * G]
      [] t.pc = "spike_latency" ->
           [t EXCEPT !.pc = "spike_error",
                     !.loc.base_latency = l.base_latency * uniform_factor(2, 4, raw)]
      [] t.pc = "spike_error" ->
           [t EXCEPT !.pc = "ret",
                     !.loc.base_error = l.base_error * uniform_factor(2, 6, raw)]
      [] t.pc = "ret" ->
           LET latency == clamp(l.base_latency, 5 * UnitS, 2000 * UnitS)
               error == clamp(l.base_error, 0, 25 * UnitS)
               rps == clamp(l.base_rps, UnitU \div 10, 2000 * UnitU)
               score == clamp(latency + 60 * error, 0, 1800 * UnitS)
           IN [t EXCEPT !.pc = "done",
                        !.result = [ts |-> iso_now(now), latency_ms |-> latency,
                                    error_rate |-> error, rps |-> rps,
                                    status |-> pick_status(score)]]

\* the two checks in the other order: a warn overwrites a down
SystemStatusWarnLast(cpu, mem, disk) ==
    LET downed == IF cpu > 96 * UnitU \/ mem > 96 * UnitU THEN "down" ELSE "ok"
    IN IF cpu > 90 * UnitU \/ mem > 90 * UnitU \/ disk > 92 * UnitU THEN "warn" ELSE downed

\* lines 156-160; cpu, mem, disk in UnitU
SystemStatus(cpu, mem, disk) ==
    LET warned == IF cpu > 90 * UnitU \/ mem > 90 * UnitU \/ disk > 92 * UnitU
                  THEN "warn" ELSE "ok"
    IN IF cpu > 96 * UnitU \/ mem > 96 * UnitU THEN "down" ELSE warned

\* lines 150-168
simulate_system(t, raw, now) ==
    LET l == t.loc IN
    CASE t.pc = "cpu" ->
           [t EXCEPT !.pc = "cpu_bump", !.loc.cpu = uniform(1800, 9200, raw)]
      [] t.pc = "cpu_bump" ->
           [t EXCEPT !.pc = "mem",
                     !.loc.cpu = clamp(l.cpu + (IF random_below(raw, 12) THEN 10 * UnitU ELSE 0),
                                       1 * UnitU, 100 * UnitU)]
      [] t.pc = "mem" ->
           [t EXCEPT !.pc = "disk",
                     !.loc.mem = clamp(uniform(3000, 8800, raw), 1 * UnitU, 100 * UnitU)]
      [] t.pc = "disk" ->
           [t EXCEPT !.pc = "uptime",
                     !.loc.disk = clamp(uniform(4000, 9300, raw), 1 * UnitU, 100 * UnitU)]
      [] t.pc = "uptime" ->
           [t EXCEPT !.pc = "ret",
                     !.loc.uptime_hours = uniform(1200, 24000, raw) \div UnitU]
      [] t.pc = "ret" ->
           [t EXCEPT !.pc = "done",
                     !.result = [ts |-> iso_now(now), cpu_percent |-> l.cpu,
                                 mem_percent |-> l.mem, disk_percent |-> l.disk,
                                 uptime_human |-> l.uptime_hours,
                                 status |-> SystemStatus(l.cpu, l.mem, l.disk)]]

\* lines 176-180; p95, err in UnitM
AppStatus(p95, err) ==
    LET warned == IF p95 > 900 * UnitM \/ err * 10 > 35 * UnitM THEN "warn" ELSE "ok"
    IN IF p95 > 1400 * UnitM \/ err > 8 * UnitM THEN "down" ELSE warned

\* lines 171-188.  The returned dict is built in the order written: ts first
\* (the clock read), then the two randint of the version
simulate_app(t, raw, now) ==
    LET l == t.loc IN
    CASE t.pc = "p95" ->
           [t EXCEPT !.pc = "p95_spike", !.loc.p95 = uniform(9000, 85000, raw)]
      [] t.pc = "p95_spike" ->
           [t EXCEPT !.pc = "rps",
                     !.loc.p95 = clamp(l.p95 * (IF random_below(raw, 6) THEN 32 ELSE 10),
                                       10 * UnitM, 3000 * UnitM)]
      [] t.pc = "rps" ->
           [t EXCEPT !.pc = "err",
                     !.loc.rps = clamp(uniform(2000, 52000, raw), 1 * UnitU, 5000 * UnitU)]
      [] t.pc = "err" ->
           [t EXCEPT !.pc = "err_spike", !.loc.err = uniform(5, 350, raw)]
      [] t.pc = "err_spike" ->
           [t EXCEPT !.pc = "ts",
                     !.loc.err = clamp(l.err * (IF random_below(raw, 5) THEN 40 ELSE 10),
                                       0, 30 * UnitM)]
      [] t.pc = "ts" ->
           [t EXCEPT !.pc = "ver_minor", !.loc.ts = iso_now(now)]
      [] t.pc = "ver_minor" ->
           [t EXCEPT !.pc = "ver_patch", !.loc.minor = randint(2, 9, raw)]
      [] t.pc = "ver_patch" ->
           [t EXCEPT !.pc = "done",
                     !.result = [ts |-> l.ts, p95_latency_ms |-> l.p95, rps |-> l.rps,
                                 error_rate_percent |-> l.err,
                                 version |-> <<1, l.minor, randint(0, 30, raw)>>,
                                 status |-> AppStatus(l.p95, l.err)]]

\* lines 196-200; rtt, loss, dns in UnitM
NetworkStatus(rtt, loss, dns) ==
    LET warned == IF rtt > 220 * UnitM \/ loss * 10 > 15 * UnitM \/ dns > 140 * UnitM
                  THEN "warn" ELSE "ok"
    IN IF rtt > 480 * UnitM \/ loss > 5 * UnitM THEN "down" ELSE warned

\* lines 191-207
simulate_network(t, raw, now) ==
    LET l == t.loc IN
    CASE t.pc = "rtt" ->
           [t EXCEPT !.pc = "rtt_spike", !.loc.rtt = uniform(1200, 18000, raw)]
      [] t.pc = "rtt_spike" ->
           [t EXCEPT !.pc = "loss",
                     !.loc.rtt = clamp(l.rtt * (IF random_below(raw, 5) THEN 30 ELSE 10),
                                       1 * UnitM, 2000 * UnitM)]
      [] t.pc = "loss" ->
           [t EXCEPT !.pc = "loss_spike", !.loc.loss = uniform(0, 120, raw)]
      [] t.pc = "loss_spike" ->
           [t EXCEPT !.pc = "dns",
                     !.loc.loss = clamp(l.loss * (IF random_below(raw, 3) THEN 50 ELSE 10),
                                        0, 30 * UnitM)]
      [] t.pc = "dns" ->
           [t EXCEPT !.pc = "dns_spike", !.loc.dns = uniform(800, 9000, raw)]
      [] t.pc = "dns_spike" ->
           [t EXCEPT !.pc = "ret",
                     !.loc.dns = clamp(l.dns * (IF random_below(raw, 5) THEN 26 ELSE 10),
                                       1 * UnitM, 1200 * UnitM)]
      [] t.pc = "ret" ->
           [t EXCEPT !.pc = "done",
                     !.result = [ts |-> iso_now(now), rtt_ms |-> l.rtt,
                                 packet_loss_percent |-> l.loss, dns_ms |-> l.dns,
                                 status |-> NetworkStatus(l.rtt, l.loss, l.dns)]]

\* the extra incident counted twice
IncidentsTwo(unhealthy, raw) == unhealthy + (IF random_below(raw, 8) THEN 2 ELSE 0)

\* line 219
Incidents(unhealthy, raw) == unhealthy + (IF random_below(raw, 8) THEN 1 ELSE 0)

\* lines 221-225
CloudStatus(unhealthy, incidents) ==
    LET warned == IF unhealthy >= 1 \/ incidents >= 1 THEN "warn" ELSE "ok"
    IN IF unhealthy >= 3 \/ incidents >= 4 THEN "down" ELSE warned

\* lines 210-234; cost in UnitU
simulate_cloud(t, raw, now) ==
    LET l == t.loc IN
    CASE t.pc = "total" ->
           [t EXCEPT !.pc = "trial", !.loc.total = randint(6, 14, raw),
                     !.loc.unhealthy = 0, !.loc.i = 0]
      [] t.pc = "trial" ->
           [t EXCEPT !.pc = IF l.i + 1 < l.total THEN "trial" ELSE "cost_base",
                     !.loc.i = l.i + 1,
                     !.loc.unhealthy = l.unhealthy + (IF random_below(raw, 12) THEN 1 ELSE 0)]
      [] t.pc = "cost_base" ->
           [t EXCEPT !.pc = "cost_unhealthy", !.loc.cost = uniform(12000, 68000, raw)]
      [] t.pc = "cost_unhealthy" ->
           [t EXCEPT !.pc = "incident",
                     !.loc.cost = clamp(l.cost + l.unhealthy * uniform(1000, 4000, raw),
                                        20 * UnitU, 5000 * UnitU)]
      [] t.pc = "incident" ->
           [t EXCEPT !.pc = "ret", !.loc.incidents = Incidents(l.unhealthy, raw)]
      [] t.pc = "ret" ->
           [t EXCEPT !.pc = "done",
                     !.result = [ts |-> iso_now(now), total_count |-> l.total,
                                 healthy_count |-> l.total - l.unhealthy,
                                 estimated_cost_per_day_usd |-> l.cost,
                                 open_incidents |-> l.incidents,
                                 status |-> CloudStatus(l.unhealthy, l.incidents)]]

\* line 251: sev_rank.get(severity, 0)
sev_rank(severity) ==
    CASE severity = "info" -> 0
      [] severity = "medium" -> 1
      [] severity = "high" -> 2
      [] severity = "critical" -> 3
      [] OTHER -> 0

MaxOf(S) == CHOOSE m \in S : \A x \in S : x <= m

\* lines 252-257
SecurityStatus(out) ==
    LET max_rank == MaxOf({sev_rank(out[k].severity) : k \in DOMAIN out})
        warned == IF max_rank >= 1 THEN "warn" ELSE "ok"
    IN IF max_rank >= 3 THEN "down" ELSE warned

\* a selection that leaves the chosen entry in the pool (with replacement)
SampleWithReplacement(pool, chosen, raw) ==
    LET j == randbelow(Len(pool), raw) + 1
    IN [chosen |-> Append(chosen, pool[j]), pool |-> pool]

\* random.sample, one selection: result[i] = pool[j]; pool[j] = pool[n-i-1],
\* with j = randbelow(n - i); here i = Len(chosen) and sequences start at 1
SampleOne(pool, chosen, raw) ==
    LET n == Len(pool)
        i == Len(chosen)
        j == randbelow(n - i, raw) + 1
    IN [chosen |-> Append(chosen, pool[j]), pool |-> [pool EXCEPT ![j] = pool[n - i]]]

\* the stamp put after the clock value instead of before it
StampTsAhead(now, minutes_ago) == now + 60 * minutes_ago

\* line 247: now - timedelta(minutes=minutes_ago), in seconds
StampTs(now, minutes_ago) == now - 60 * minutes_ago

\* line 248: {**ev, "ts": ts, "source": "backend"}
StampEvent(ev, ts) ==
    [id |-> ev.id, severity |-> ev.severity, title |-> ev.title, detail |-> ev.detail,
     ts |-> ts, source |-> "backend"]

\* the stamp written into the catalog entry itself (ev.update(...))
CatalogStampInPlace(cat, ev, stamped) ==
    [k \in DOMAIN cat |-> IF cat[k] = ev THEN stamped ELSE cat[k]]

\* line 248 builds a new dict from ev: the catalog entry ev refers to is not
\* written, and the catalog is afterwards what it was
CatalogAfterStamp(cat, ev, stamped) == cat

\* lines 237-259, reading the catalog cat.  random.sample raises ValueError
\* ("Sample larger than population or is negative") before it draws when
\* k > len(population)
simulate_security(t, raw, now, cat) ==
    LET l == t.loc IN
    CASE t.pc = "count" ->
           LET count == randint(2, 5, raw) IN
           IF count > Len(cat)
           THEN [t EXCEPT !.pc = "raised", !.loc.count = count,
                          !.result = [error |-> "ValueError"]]
           ELSE [t EXCEPT !.pc = "sample", !.loc.count = count, !.loc.pool = cat,
                          !.loc.chosen = <<>>]
      [] t.pc = "sample" ->
           LET s == SampleOne(l.pool, l.chosen, raw) IN
           [t EXCEPT !.pc = IF Len(s.chosen) < l.count THEN "sample" ELSE "minutes_ago",
                     !.loc.pool = s.pool, !.loc.chosen = s.chosen]
      [] t.pc = "minutes_ago" ->
           [t EXCEPT !.pc = "stamp", !.loc.minutes_ago = randint(0, 90, raw)]
      [] t.pc = "stamp" ->
           LET ev == l.chosen[Len(l.out) + 1]
               out == Append(l.out, StampEvent(ev, StampTs(now, l.minutes_ago)))
           IN [t EXCEPT !.pc = IF Len(out) < Len(l.chosen) THEN "minutes_ago" ELSE "ret",
                        !.loc.out = out]
      [] t.pc = "ret" ->
           [t EXCEPT !.pc = "done",
                     !.result = [ts |-> iso_now(now), status |-> SecurityStatus(l.out),
                                 events |-> l.out]]

\* lines 290-292, reading the catalog services
list_services(t, now, services) ==
    [t EXCEPT !.pc = "done", !.result = [ts |-> iso_now(now), services |-> services]]

(***************************************************************************)
(* Requests.                                                               *)
(***************************************************************************)
\* the local variables of each function, before it assigns them
LocInit(domain) ==
    CASE domain = "service" -> [base_latency |-> 0, base_error |-> 0, base_rps |-> 0]
      [] domain = "system" -> [cpu |-> 0, mem |-> 0, disk |-> 0, uptime_hours |-> 0]
      [] domain = "app" -> [p95 |-> 0, rps |-> 0, err |-> 0, ts |-> 0, minor |-> 0]
      [] domain = "network" -> [rtt |-> 0, loss |-> 0, dns |-> 0]
      [] domain = "cloud" -> [total |-> 0, unhealthy |-> 0, i |-> 0, cost |-> 0,
                              incidents |-> 0]
      [] domain = "security" -> [count |-> 0, pool |-> <<>>, chosen |-> <<>>,
                                 minutes_ago |-> 0, out |-> <<>>]
      [] OTHER -> [none |-> TRUE]

\* the first statement after the generator is seeded
FirstPc(domain) ==
    CASE domain = "service" -> "base_latency"
      [] domain = "system" -> "cpu"
      [] domain = "app" -> "p95"
      [] domain = "network" -> "rtt"
      [] domain = "cloud" -> "total"
      [] domain = "security" -> "count"

\* the statements that read the clock; every other one consumes a draw
ClockPcs == {"stamp", "ret", "ts"}

RestPcs == {"idle", "done", "raised"}

Idle ==
    [domain |-> "none", sid |-> "", pc |-> "idle", loc |-> [none |-> TRUE],
     reads |-> <<>>, result |-> NoResult]

\* the route handlers, lines 265-298: each calls its simulate_* function;
\* list_services seeds no generator
NewRequest(domain, sid) ==
    [domain |-> domain, sid |-> sid,
     pc |-> IF domain = "services" THEN "ret" ELSE "seed",
     loc |-> LocInit(domain), reads |-> <<>>, result |-> NoResult]

\* the generator seeded from the timestamp itself, no bucket
BucketOfOneSecond(domain) == 1

\* the time bucket of each domain, in seconds (the divisor of timestamp // n)
BucketSeconds(domain) ==
    CASE domain \in {"service", "cloud"} -> 5
      [] domain \in {"system", "app", "network"} -> 3
      [] domain = "security" -> 7

\* the offset added to the bucket number
SeedOffset(domain, sid) ==
    CASE domain = "service" -> stable_seed(sid)
      [] domain = "system" -> 0
      [] domain = "app" -> 991
      [] domain = "network" -> 42
      [] domain = "cloud" -> 777
      [] domain = "security" -> 2024

\* the argument of random.Random(...) in each simulate_* function
SeedOf(domain, sid, now) == SeedOffset(domain, sid) + now \div BucketSeconds(domain)

\* one module-level generator that every request seeds and draws from
GenShared(r) == "t1"

\* the generator a request draws from: its own, a local of the call
GenOf(r) == r

\* one statement of request t: raw is the draw it consumes, now the clock
Statement(t, raw, now) ==
    CASE t.domain = "service" -> simulate_service_metrics(t, raw, now)
      [] t.domain = "system" -> simulate_system(t, raw, now)
      [] t.domain = "app" -> simulate_app(t, raw, now)
      [] t.domain = "network" -> simulate_network(t, raw, now)
      [] t.domain = "cloud" -> simulate_cloud(t, raw, now)
      [] t.domain = "security" -> simulate_security(t, raw, now, securityEvents)
      [] t.domain = "services" -> list_services(t, now, baseServices)

(***************************************************************************)
(* Actions.                                                                *)
(***************************************************************************)
Init ==
    /\ clock = StartClock
    /\ th = [r \in Threads |-> Idle]
    /\ rng = [r \in Threads |-> [seed |-> 0, pos |-> 0]]
    /\ baseServices = BASE_SERVICES
    /\ securityEvents = SECURITY_EVENTS
    /\ pyhash \in HashTables

\* time passes
Tick ==
    /\ clock < StartClock + MaxElapsed
    /\ clock' = clock + 1
    /\ UNCHANGED <<th, rng, baseServices, securityEvents, pyhash>>

\* a request arrives and thread r takes it
Start(r, domain, sid) ==
    /\ th[r].pc \in RestPcs
    /\ th' = [th EXCEPT ![r] = NewRequest(domain, sid)]
    /\ UNCHANGED <<clock, rng, baseServices, securityEvents, pyhash>>

\* rng = random.Random(<seed from the clock>)
Seed(r) ==
    /\ th[r].pc = "seed"
    /\ rng' = [rng EXCEPT ![GenOf(r)] =
                  [seed |-> SeedOf(th[r].domain, th[r].sid, clock), pos |-> 0]]
    /\ th' = [th EXCEPT ![r].pc = FirstPc(th[r].domain),
                        ![r].reads = Append(th[r].reads, clock)]
    /\ UNCHANGED <<clock, baseServices, securityEvents, pyhash>>

\* a statement that consumes the next output, raw, of the request's generator
Draw(r, raw) ==
    /\ th[r].pc \notin RestPcs \cup ClockPcs \cup {"seed"}
    /\ th' = [th EXCEPT ![r] = Statement(th[r], raw, 0)]
    /\ rng' = [rng EXCEPT ![GenOf(r)].pos = rng[GenOf(r)].pos + 1]
    /\ UNCHANGED <<clock, baseServices, securityEvents, pyhash>>

\* a statement that reads the clock: the stamp of an event, the ts of a record
ReadClock(r) ==
    /\ th[r].pc \in ClockPcs
    /\ LET t == [th[r] EXCEPT !.reads = Append(th[r].reads, clock)]
           u == Statement(t, 0, clock)
       IN /\ th' = [th EXCEPT ![r] = u]
          /\ securityEvents' =
                IF t.pc = "stamp"
                THEN CatalogAfterStamp(securityEvents, t.loc.chosen[Len(t.loc.out) + 1],
                                       u.loc.out[Len(u.loc.out)])
                ELSE securityEvents
    /\ UNCHANGED <<clock, rng, baseServices, pyhash>>

\* the requests the model sends
Requests ==
    {<<d, "">> : d \in Domains \ {"service"}} \cup {<<"service", s>> : s \in ServiceIds}

\* one request at a time, every outcome of every draw
Next ==
    \/ Tick
    \/ \E q \in Requests : Start("t1", q[1], q[2])
    \/ Seed("t1")
    \/ \E raw \in RawsAt(th["t1"].pc) : Draw("t1", raw)
    \/ ReadClock("t1")

Spec == Init /\ [][Next]_vars

\* requests in parallel, each generator the fixed function MT of its seed
NextPar ==
    \/ Tick
    \/ \E r \in Threads : \E q \in Requests : Start(r, q[1], q[2])
    \/ \E r \in Threads : Seed(r)
    \/ \E r \in Threads : Draw(r, MT(rng[GenOf(r)].seed, rng[GenOf(r)].pos))
    \/ \E r \in Threads : ReadClock(r)

SpecPar == Init /\ [][NextPar]_vars

(***************************************************************************)
(* What the claims speak of.                                               *)
(***************************************************************************)
Returned(r, domain) == th[r].pc = "done" /\ th[r].domain = domain

Ended(r) == th[r].pc \in {"done", "raised"}

EventIds(events) == [k \in DOMAIN events |-> events[k].id]

InRange(v, lo, hi) == lo <= v /\ v <= hi

(***************************************************************************)
(* C1.  No request ends in a domain error: every simulation, for every     *)
(* clock value, every outcome of the draws and every service id, returns   *)
(* a snapshot record and never raises.                                     *)
(***************************************************************************)
C1_NoDomainError == \A r \in Threads : th[r].pc # "raised"

(***************************************************************************)
(* C2.  For every outcome of the draws, simulate_security returns a        *)
(* snapshot that holds between 2 and 5 events, pairwise distinct, each an  *)
(* entry of SECURITY_EVENTS extended with ts and source = "backend".       *)
(***************************************************************************)
C2_SecurityEvents ==
    \A r \in Threads :
        (th[r].domain = "security" /\ Ended(r)) =>
            /\ th[r].pc = "done"
            /\ LET ev == th[r].result.events IN
               /\ Len(ev) \in 2..5
               /\ \A j, k \in DOMAIN ev : j # k => ev[j].id # ev[k].id
               /\ \A k \in DOMAIN ev :
                     \E c \in DOMAIN SECURITY_EVENTS :
                         ev[k] = StampEvent(SECURITY_EVENTS[c], ev[k].ts)

(***************************************************************************)
(* C3.  Every numeric field of every returned snapshot lies within its     *)
(* declared clamp range.                                                   *)
(***************************************************************************)
C3_WithinClampRanges ==
    \A r \in Threads :
        LET res == th[r].result IN
        /\ Returned(r, "service") =>
              /\ InRange(res.latency_ms, 5 * UnitS, 2000 * UnitS)
              /\ InRange(res.error_rate, 0, 25 * UnitS)
              /\ InRange(res.rps * 10, 1 * UnitU, 20000 * UnitU)
        /\ Returned(r, "system") =>
              /\ InRange(res.cpu_percent, 1 * UnitU, 100 * UnitU)
              /\ InRange(res.mem_percent, 1 * UnitU, 100 * UnitU)
              /\ InRange(res.disk_percent, 1 * UnitU, 100 * UnitU)
        /\ Returned(r, "app") =>
              /\ InRange(res.p95_latency_ms, 10 * UnitM, 3000 * UnitM)
              /\ InRange(res.rps, 1 * UnitU, 5000 * UnitU)
              /\ InRange(res.error_rate_percent, 0, 30 * UnitM)
        /\ Returned(r, "network") =>
              /\ InRange(res.rtt_ms, 1 * UnitM, 2000 * UnitM)
              /\ InRange(res.packet_loss_percent, 0, 30 * UnitM)
              /\ InRange(res.dns_ms, 1 * UnitM, 1200 * UnitM)
        /\ Returned(r, "cloud") =>
              InRange(res.estimated_cost_per_day_usd, 20 * UnitU, 5000 * UnitU)

\* a system snapshot whose cpu_percent the clamp cut to 100
C3_Witness ==
    \E r \in Threads :
        /\ Returned(r, "system")
        /\ th[r].result.cpu_percent = 100 * UnitU
        /\ th[r].result.disk_percent > 92 * UnitU

(***************************************************************************)
(* C5.  The status of every returned snapshot is the documented threshold  *)
(* function of the snapshot's own fields, down before warn before ok.      *)
(***************************************************************************)
DocStatus(down, warn) == IF down THEN "down" ELSE IF warn THEN "warn" ELSE "ok"

C5_StatusIsThresholdFunction ==
    \A r \in Threads :
        LET res == th[r].result IN
        /\ Returned(r, "system") =>
              res.status = DocStatus(res.cpu_percent > 96 * UnitU \/ res.mem_percent > 96 * UnitU,
                                     \/ res.cpu_percent > 90 * UnitU
                                     \/ res.mem_percent > 90 * UnitU
                                     \/ res.disk_percent > 92 * UnitU)
        /\ Returned(r, "app") =>
              res.status = DocStatus(\/ res.p95_latency_ms > 1400 * UnitM
                                     \/ res.error_rate_percent > 8 * UnitM,
                                     \/ res.p95_latency_ms > 900 * UnitM
                                     \/ 2 * res.error_rate_percent > 7 * UnitM)
        /\ Returned(r, "network") =>
              res.status = DocStatus(res.rtt_ms > 480 * UnitM \/ res.packet_loss_percent > 5 * UnitM,
                                     \/ res.rtt_ms > 220 * UnitM
                                     \/ 2 * res.packet_loss_percent > 3 * UnitM
                                     \/ res.dns_ms > 140 * UnitM)
        /\ Returned(r, "cloud") =>
              LET unhealthy == res.total_count - res.healthy_count IN
              res.status = DocStatus(unhealthy >= 3 \/ res.open_incidents >= 4,
                                     unhealthy >= 1 \/ res.open_incidents >= 1)
        /\ Returned(r, "service") =>
              \* score = latency_ms/900*0.6 + error_rate/10*0.4, times 1500
              LET score == clamp(res.latency_ms + 60 * res.error_rate, 0, 1800 * UnitS)
              IN res.status = DocStatus(score > 1275 * UnitS, score > 825 * UnitS)
        /\ Returned(r, "security") =>
              LET ranks == {sev_rank(res.events[k].severity) : k \in DOMAIN res.events}
              IN res.status = DocStatus(\E x \in ranks : x >= 3, \E x \in ranks : x >= 1)

\* a system snapshot that meets the warn threshold and the down threshold
C5_Witness ==
    \E r \in Threads :
        /\ Returned(r, "system")
        /\ th[r].result.cpu_percent > 96 * UnitU
        /\ th[r].result.disk_percent > 92 * UnitU
        /\ th[r].result.status = "down"

(***************************************************************************)
(* C6.  In every security snapshot each event's ts is no later than the    *)
(* snapshot's ts and no more than 90 minutes (5400 s) before it, the clock *)
(* being read once per event and once more for the snapshot.               *)
(***************************************************************************)
C6_EventWithin90Minutes ==
    \A r \in Threads :
        Returned(r, "security") =>
            \A k \in DOMAIN th[r].result.events :
                LET e == th[r].result.events[k] IN
                e.ts <= th[r].result.ts /\ th[r].result.ts - e.ts <= 5400

(***************************************************************************)
(* C6, amended.  Each event's ts is no later than the snapshot's ts and no *)
(* more than 90 minutes before the clock value read when the event was     *)
(* stamped (reads[k + 1]: the first read seeds the generator); so it is    *)
(* before the snapshot's ts by at most 90 minutes plus the time that       *)
(* passed between the two reads.                                           *)
(***************************************************************************)
C6_EventWithin90MinutesOfItsRead ==
    \A r \in Threads :
        Returned(r, "security") =>
            \A k \in DOMAIN th[r].result.events :
                LET e == th[r].result.events[k]
                    read == th[r].reads[k + 1]
                    ts == th[r].result.ts
                IN /\ e.ts <= ts
                   /\ e.ts <= read /\ read - e.ts <= 5400
                   /\ ts - e.ts <= 5400 + (ts - read)

\* a snapshot with an event stamped 90 minutes back, returned after the
\* clock moved on: the event is more than 90 minutes before the snapshot
C6_Witness ==
    \E r \in Threads :
        /\ Returned(r, "security")
        /\ \E k \in DOMAIN th[r].result.events :
              /\ th[r].reads[k + 1] - th[r].result.events[k].ts = 5400
              /\ th[r].result.ts - th[r].result.events[k].ts > 5400

(***************************************************************************)
(* C7.  After any sequence of requests the two catalogs are what they were *)
(* at start, and list_services returns exactly the 5 built-in descriptors, *)
(* same ids, same order.                                                   *)
(***************************************************************************)
C7_CatalogsUnchanged ==
    /\ baseServices = BASE_SERVICES
    /\ securityEvents = SECURITY_EVENTS
    /\ \A r \in Threads :
          Returned(r, "services") =>
              /\ th[r].result.services = BASE_SERVICES
              /\ EventIds(th[r].result.services) =
                    <<"svc-auth", "svc-orders", "svc-postgres", "svc-redis", "svc-gateway">>

\* list_services has returned on a thread whose generator was last seeded
\* by a security request (offset 2024), that is, after one was served
C7_Witness ==
    \E r \in Threads :
        /\ Returned(r, "services")
        /\ rng[r].seed >= 2024 /\ rng[r].seed <= 2024 + (StartClock + MaxElapsed) \div 7
        /\ rng[r].pos >= 5

(***************************************************************************)
(* C9.  Every security snapshot returned has status warn or down, never    *)
(* ok, and the status is down exactly when evt-3 is among its events.      *)
(***************************************************************************)
C9_SecurityNeverOk ==
    \A r \in Threads :
        Returned(r, "security") =>
            LET res == th[r].result IN
            /\ res.status \in {"warn", "down"}
            /\ res.status = "down" <=> \E k \in DOMAIN res.events : res.events[k].id = "evt-3"

\* a snapshot that holds the info event evt-4 and not evt-3: warn
C9_Witness ==
    \E r \in Threads :
        /\ Returned(r, "security")
        /\ \E k \in DOMAIN th[r].result.events : th[r].result.events[k].id = "evt-4"
        /\ \A k \in DOMAIN th[r].result.events : th[r].result.events[k].id # "evt-3"
        /\ th[r].result.status = "warn"

(***************************************************************************)
(* C10.  Every cloud snapshot has 6 <= total_count <= 14,                  *)
(* 0 <= healthy_count <= total_count, open_incidents equal to the          *)
(* unhealthy count or one more; its status is ok exactly when              *)
(* healthy_count = total_count and open_incidents = 0, and down exactly    *)
(* when total_count - healthy_count >= 3.                                  *)
(***************************************************************************)
C10_CloudCounts ==
    \A r \in Threads :
        Returned(r, "cloud") =>
            LET res == th[r].result
                unhealthy == res.total_count - res.healthy_count
            IN /\ InRange(res.total_count, 6, 14)
               /\ InRange(res.healthy_count, 0, res.total_count)
               /\ res.open_incidents \in {unhealthy, unhealthy + 1}
               /\ res.status = "ok" <=> (res.healthy_count = res.total_count
                                         /\ res.open_incidents = 0)
               /\ res.status = "down" <=> unhealthy >= 3

\* every instance healthy and still one open incident: warn, not ok
C10_Witness ==
    \E r \in Threads :
        /\ Returned(r, "cloud")
        /\ th[r].result.healthy_count = th[r].result.total_count
        /\ th[r].result.open_incidents = 1
        /\ th[r].result.status = "warn"

(***************************************************************************)
(* What a request returns when it is served alone: the statements of       *)
(* t run to the end on a generator g of their own, the clock reads being   *)
(* the values rd, in order.  A run that needs more reads than rd holds     *)
(* stops where it is.                                                      *)
(***************************************************************************)
RECURSIVE ServedAlone(_, _, _)
ServedAlone(t, g, rd) ==
    LET k == Len(t.reads) + 1 IN
    IF t.pc \in RestPcs THEN t
    ELSE IF t.pc \in ClockPcs \cup {"seed"} /\ k > Len(rd) THEN t
    ELSE IF t.pc = "seed"
         THEN ServedAlone([t EXCEPT !.pc = FirstPc(t.domain), !.reads = Append(t.reads, rd[k])],
                          [seed |-> SeedOf(t.domain, t.sid, rd[k]), pos |-> 0], rd)
    ELSE IF t.pc \in ClockPcs
         THEN ServedAlone(Statement([t EXCEPT !.reads = Append(t.reads, rd[k])], 0, rd[k]),
                          g, rd)
    ELSE ServedAlone(Statement(t, MT(g.seed, g.pos), 0), [g EXCEPT !.pos = g.pos + 1], rd)

\* the documented bucket of each domain, in seconds
DocBucket(domain) ==
    IF domain \in {"service", "cloud"} THEN 5
    ELSE IF domain \in {"system", "app", "network"} THEN 3
    ELSE 7

\* two requests for the same simulation, both ended, whose seeding clock
\* reads fall in the same bucket
SameWindow(r1, r2) ==
    /\ r1 # r2
    /\ Ended(r1) /\ Ended(r2)
    /\ th[r1].domain = th[r2].domain /\ th[r1].sid = th[r2].sid
    /\ th[r1].domain # "services"
    /\ th[r1].reads[1] \div DocBucket(th[r1].domain)
          = th[r2].reads[1] \div DocBucket(th[r2].domain)

\* a returned record without its clock values: the ts, and for security the
\* ts of each event
WithoutTs(t) ==
    IF t.pc # "done" THEN t.result
    ELSE IF t.domain = "security"
         THEN [status |-> t.result.status,
               events |-> [k \in DOMAIN t.result.events |->
                              [t.result.events[k] EXCEPT !.ts = 0]],
               minutes |-> [k \in DOMAIN t.result.events |->
                              t.reads[k + 1] - t.result.events[k].ts]]
         ELSE [t.result EXCEPT !.ts = 0]

(***************************************************************************)
(* C4.  Two calls of the same simulation at clock values in the same time  *)
(* bucket return identical output.                                         *)
(***************************************************************************)
C4_IdenticalWithinWindow ==
    \A r1, r2 \in Threads :
        SameWindow(r1, r2) => th[r1].pc = th[r2].pc /\ th[r1].result = th[r2].result

(***************************************************************************)
(* C4, amended.  Two calls of the same simulation at clock values in the   *)
(* same time bucket end the same way and return output that is identical   *)
(* apart from the clock values in it: the ts of the record and, for        *)
(* security, the ts of each event, which is the same number of minutes     *)
(* before the clock value read for it.                                     *)
(***************************************************************************)
C4_IdenticalWithinWindowApartFromTs ==
    \A r1, r2 \in Threads :
        SameWindow(r1, r2) =>
            th[r1].pc = th[r2].pc /\ WithoutTs(th[r1]) = WithoutTs(th[r2])

\* two calls in one bucket that returned at different clock values, and so
\* with different ts
C4_Witness ==
    \E r1, r2 \in Threads :
        /\ SameWindow(r1, r2)
        /\ th[r1].pc = "done" /\ th[r2].pc = "done"
        /\ th[r1].reads[1] # th[r2].reads[1]
        /\ th[r1].result.ts # th[r2].result.ts

(***************************************************************************)
(* C8.  Under every interleaving of the steps of the requests in flight,   *)
(* each request ends with the result it would have if it were served       *)
(* alone with the same clock reads.                                        *)
(***************************************************************************)
C8_SameAsServedAlone ==
    \A r \in Threads :
        Ended(r) =>
            LET a == ServedAlone(NewRequest(th[r].domain, th[r].sid),
                                 [seed |-> 0, pos |-> 0], th[r].reads)
            IN a.pc = th[r].pc /\ a.result = th[r].result

\* a request has returned while another, seeded before that return, is
\* still drawing: the two were in flight together
C8_Witness ==
    \E r1, r2 \in Threads :
        /\ r1 # r2
        /\ th[r1].pc = "done" /\ th[r1].domain # "services"
        /\ th[r2].pc \notin RestPcs \cup ClockPcs \cup {"seed"}
        /\ rng[GenOf(r2)].pos >= 1
        /\ th[r2].reads[1] < th[r1].result.ts
        /\ th[r1].reads[1] < th[r2].reads[1]

====
